---------------------------- MODULE Spec2Model ----------------------------
(***************************************************************************)
(* A model of google-geotag.py: photographs are matched to the sample of   *)
(* a Google location history that is nearest in time, and the sample's     *)
(* position is written into the photograph's EXIF tags.                    *)
(*                                                                         *)
(* Conventions of the model                                                *)
(*  - a Python str is a sequence of one-character strings, so that         *)
(*    startswith, endswith, split, `in`, float(), int() and strptime are   *)
(*    computed on the characters;                                          *)
(*  - a JSON value is a record [t, n, s]: t is "null", "int" or "str";     *)
(*  - a timestamp is a whole number of seconds since the epoch: the        *)
(*    model's date strings carry a zero sub-second part, and the local     *)
(*    time zone of datetime.timestamp() is UTC;                            *)
(*  - a float holding degrees is an integer number of 1e-7 degree;         *)
(*  - hours_away, a float quotient, is the exact fraction [num, den].      *)
(***************************************************************************)
EXTENDS Integers, Sequences, FiniteSets, TLC

VARIABLES
    pc,                \* where the run is: see Init and the actions
    error_hours,       \* parse_arguments: --error_hours
    timezone_offset,   \* parse_arguments: --timezone
    dir_listing,       \* what os.listdir(image_dir) gives, or that it raises
    image_file_names,  \* read_image_file_names' result
    location_data,     \* json.load of location-history.json
    locations_list,    \* load_locations' result
    num,               \* the photo loop's index (0-based, as enumerate)
    exif_reads,        \* the et.get_metadata calls made, in order
    matches,           \* the find_closest_location_in_time calls that returned
    exif_writes,       \* the et.set_tags calls made, in order
    stdout,            \* the per-photo report lines printed
    exception          \* the exception that ended the run, "none" otherwise

vars == <<pc, error_hours, timezone_offset, dir_listing, image_file_names,
          location_data, locations_list, num, exif_reads, matches,
          exif_writes, stdout, exception>>

-----------------------------------------------------------------------------
(* Bounds of the model. *)

\* the most files the photo directory holds
MaxFiles == 2
\* the most points of a timelinePath in the generated history files
MaxPoints == 2
\* the longest location list find_closest_location_in_time is tried on alone
MaxLen == 3

-----------------------------------------------------------------------------
(* Characters and strings. *)

DigitChars == <<"0", "1", "2", "3", "4", "5", "6", "7", "8", "9">>

IsDigit(c) == \E i \in 1..10 : DigitChars[i] = c

DigitVal(c) == (CHOOSE i \in 1..10 : DigitChars[i] = c) - 1

\* The characters of the model's strings, in code point order.
AsciiOrder ==
    <<" ", ",", "-", ".">> \o DigitChars \o <<":">> \o
    <<"A", "B", "C", "D", "E", "F", "G", "H", "I", "J", "K", "L", "M",
      "N", "O", "P", "Q", "R", "S", "T", "U", "V", "W", "X", "Y", "Z">> \o
    <<"a", "b", "c", "d", "e", "f", "g", "h", "i", "j", "k", "l", "m",
      "n", "o", "p", "q", "r", "s", "t", "u", "v", "w", "x", "y", "z">>

ord(c) == CHOOSE i \in 1..Len(AsciiOrder) : AsciiOrder[i] = c

Min(a, b) == IF a < b THEN a ELSE b

\* F(x) for x the value of e.  A Python statement `x = e` computes e once; so
\* does this, where a LET would compute e again at each use of x.
With(e, F(_)) == CHOOSE out \in {F(x) : x \in {e}} : TRUE

Abs(x) == IF x < 0 THEN -x ELSE x

\* str.__lt__: the first differing character decides, a proper prefix is less.
RECURSIVE StrLessFrom(_, _, _)
StrLessFrom(a, b, i) ==
    IF i > Len(b) THEN FALSE
    ELSE IF i > Len(a) THEN TRUE
    ELSE IF a[i] # b[i] THEN ord(a[i]) < ord(b[i])
    ELSE StrLessFrom(a, b, i + 1)

StrLess(a, b) == StrLessFrom(a, b, 1)

startswith(s, prefix) ==
    Len(s) >= Len(prefix) /\ SubSeq(s, 1, Len(prefix)) = prefix

endswith(s, suffix) ==
    Len(s) >= Len(suffix) /\ SubSeq(s, Len(s) - Len(suffix) + 1, Len(s)) = suffix

\* needle in hay, for two strings: a substring test.
Contains(hay, needle) ==
    \E i \in 1..(Len(hay) - Len(needle) + 1) :
        SubSeq(hay, i, i + Len(needle) - 1) = needle

\* s.split(sep) for a one-character sep: the pieces between the separators.
RECURSIVE SplitFrom(_, _, _, _)
SplitFrom(s, sep, i, piece) ==
    IF i > Len(s) THEN <<piece>>
    ELSE IF s[i] = sep THEN <<piece>> \o SplitFrom(s, sep, i + 1, <<>>)
    ELSE SplitFrom(s, sep, i + 1, Append(piece, s[i]))

split(s, sep) == SplitFrom(s, sep, 1, <<>>)

AllDigits(s) == \A i \in 1..Len(s) : IsDigit(s[i])

\* The number the first n characters of s, all digits, write.
RECURSIVE DigitsValueTo(_, _)
DigitsValueTo(s, n) ==
    IF n = 0 THEN 0 ELSE 10 * DigitsValueTo(s, n - 1) + DigitVal(s[n])

DigitsValue(s) == DigitsValueTo(s, Len(s))

\* A sign and what follows it.
Unsigned(s) ==
    IF s # <<>> /\ s[1] \in {"-", "+"} THEN Tail(s) ELSE s

Sign(s) == IF s # <<>> /\ s[1] = "-" THEN -1 ELSE 1

Pow10(k) == CASE k = 0 -> 1 [] k = 1 -> 10 [] k = 2 -> 100 [] k = 3 -> 1000
              [] k = 4 -> 10000 [] k = 5 -> 100000 [] k = 6 -> 1000000
              [] OTHER -> 10000000

\* The floats that hold degrees are counted in this many parts of a degree.
E7 == Pow10(7)

\* float(s) of a decimal literal: an optional sign, digits, optionally a point
\* and digits, at least one digit in all.  [ok |-> FALSE] is ValueError.  The
\* value is counted in 1e-7: digits past the seventh decimal are cut.
float(s) ==
    With(split(Unsigned(s), "."), LAMBDA parts :
        LET whole == parts[1]
            frac  == IF Len(parts) = 2 THEN parts[2] ELSE <<>>
            frac7 == SubSeq(frac, 1, Min(Len(frac), 7))
        IN  IF /\ Len(parts) <= 2
               /\ AllDigits(whole) /\ AllDigits(frac)
               /\ Len(whole) + Len(frac) >= 1
            THEN [ok |-> TRUE,
                  v  |-> Sign(s) * (DigitsValue(whole) * E7
                                    + DigitsValue(frac7) * Pow10(7 - Len(frac7)))]
            ELSE [ok |-> FALSE, v |-> 0])

-----------------------------------------------------------------------------
(* JSON values. *)

JNull == [t |-> "null", n |-> 0, s |-> <<>>]

JInt(k) == [t |-> "int", n |-> k, s |-> <<>>]

JStr(str) == [t |-> "str", n |-> 0, s |-> str]

\* Python's truth value of a JSON value: None, 0 and "" are false.
Truthy(j) ==
    CASE j.t = "null" -> FALSE
      [] j.t = "int"  -> j.n # 0
      [] OTHER        -> j.s # <<>>

\* int(x): an int is itself; a str must be a sign and digits, else ValueError.
int(j) ==
    IF j.t = "int" THEN [ok |-> TRUE, v |-> j.n]
    ELSE IF j.t = "str" /\ Unsigned(j.s) # <<>> /\ AllDigits(Unsigned(j.s))
    THEN [ok |-> TRUE, v |-> Sign(j.s) * DigitsValue(Unsigned(j.s))]
    ELSE [ok |-> FALSE, v |-> 0]

-----------------------------------------------------------------------------
(* datetime. *)

IsLeap(y) == (y % 4 = 0 /\ y % 100 # 0) \/ y % 400 = 0

DaysInMonth(y, m) ==
    CASE m \in {4, 6, 9, 11} -> 30
      [] m = 2 -> IF IsLeap(y) THEN 29 ELSE 28
      [] OTHER -> 31

\* Days from 1970-01-01 to the civil date y-m-d.
DaysFromCivil(y, m, d) ==
    LET yy  == IF m <= 2 THEN y - 1 ELSE y
        era == yy \div 400
        yoe == yy - era * 400
        mp  == IF m > 2 THEN m - 3 ELSE m + 9
        doy == (153 * mp + 2) \div 5 + d - 1
        doe == yoe * 365 + yoe \div 4 - yoe \div 100 + doy
    IN  era * 146097 + doe - 719468

Directives == {"%Y", "%m", "%d", "%H", "%M", "%S", "%f"}

\* The most a two-digit directive's value may be for strptime's pattern to
\* match it, and the least.
DirectiveMax(tok) ==
    CASE tok = "%m" -> 12 [] tok = "%d" -> 31 [] tok = "%H" -> 23
      [] tok = "%M" -> 59 [] OTHER -> 61

DirectiveMin(tok) == IF tok \in {"%m", "%d"} THEN 1 ELSE 0

DigitsAt(s, i, w) ==
    i + w - 1 <= Len(s) /\ AllDigits(SubSeq(s, i, i + w - 1))

InRange(s, i, w, tok) ==
    /\ DigitsAt(s, i, w)
    /\ DigitsValue(SubSeq(s, i, i + w - 1)) >= DirectiveMin(tok)
    /\ DigitsValue(SubSeq(s, i, i + w - 1)) <= DirectiveMax(tok)

\* How many of the characters from i on are digits, up to most.
RECURSIVE DigitRun(_, _, _)
DigitRun(s, i, most) ==
    IF most = 0 \/ i > Len(s) \/ ~IsDigit(s[i]) THEN 0
    ELSE 1 + DigitRun(s, i + 1, most - 1)

RECURSIVE SpaceRun(_, _)
SpaceRun(s, i) ==
    IF i > Len(s) \/ s[i] # " " THEN 0 ELSE 1 + SpaceRun(s, i + 1)

\* How many characters of s from i on the format's token tok takes (0: no
\* match): a directive takes its digits (%Y four, %f one to six, the others
\* two, or one when two do not fit its range), a space of the format takes
\* one or more spaces, any other character takes itself.
Width(s, i, tok) ==
    CASE tok = "%Y" -> IF DigitsAt(s, i, 4) THEN 4 ELSE 0
      [] tok = "%f" -> DigitRun(s, i, 6)
      [] tok \in Directives ->
           IF InRange(s, i, 2, tok) THEN 2
           ELSE IF InRange(s, i, 1, tok) THEN 1 ELSE 0
      [] tok = " " -> SpaceRun(s, i)
      [] OTHER -> IF i <= Len(s) /\ s[i] = tok THEN 1 ELSE 0

\* _strptime's match of s from i against the format from its k-th token on,
\* f holding the directives read so far; nothing of s may remain.
RECURSIVE Scan(_, _, _, _, _)
Scan(s, i, fmt, k, f) ==
    IF k > Len(fmt) THEN [ok |-> i = Len(s) + 1, f |-> f]
    ELSE With(Width(s, i, fmt[k]), LAMBDA w :
             IF w = 0 THEN [ok |-> FALSE, f |-> f]
             ELSE Scan(s, i + w, fmt, k + 1,
                       IF fmt[k] \in Directives
                       THEN [f EXCEPT ![fmt[k]] = DigitsValue(SubSeq(s, i, i + w - 1))]
                       ELSE f))

\* datetime.strptime(s, fmt).  [ok |-> FALSE] is ValueError: no match, or a
\* matched date that datetime refuses (day past the month's end, second 60).
\* The datetime is held as its seconds from 1970-01-01T00:00:00.
strptime(s, fmt) ==
    With(Scan(s, 1, fmt, 1, [d \in Directives |-> IF d \in {"%m", "%d"} THEN 1 ELSE 0]),
         LAMBDA r :
            IF r.ok /\ r.f["%d"] <= DaysInMonth(r.f["%Y"], r.f["%m"]) /\ r.f["%S"] <= 59
            THEN [ok |-> TRUE,
                  dt |-> DaysFromCivil(r.f["%Y"], r.f["%m"], r.f["%d"]) * 86400
                         + r.f["%H"] * 3600 + r.f["%M"] * 60 + r.f["%S"]]
            ELSE [ok |-> FALSE, dt |-> 0])

\* datetime.timestamp() of a naive datetime, the local zone being UTC.
timestamp(dt) == dt

\* datetime + timedelta(minutes = m), datetime - timedelta(hours = h)
PlusMinutes(dt, m) == dt + m * 60

MinusHours(dt, h) == dt - h * 3600

\* "%Y-%m-%dT%H:%M:%S.%fZ"
IsoFractionFormat ==
    <<"%Y", "-", "%m", "-", "%d", "T", "%H", ":", "%M", ":", "%S", ".", "%f", "Z">>

\* "%Y-%m-%dT%H:%M:%SZ"
IsoFormat ==
    <<"%Y", "-", "%m", "-", "%d", "T", "%H", ":", "%M", ":", "%S", "Z">>

\* "%Y:%m:%d %H:%M:%S"
ExifFormat ==
    <<"%Y", ":", "%m", ":", "%d", " ", "%H", ":", "%M", ":", "%S">>

-----------------------------------------------------------------------------
(* class Location, and the time-sorted list of them. *)

Location(ts, lat, lon) == [timestamp |-> ts, latitude |-> lat, longitude |-> lon]

\* Location.__lt__
Lt(self, other) == self.timestamp < other.timestamp

\* A sort that leaves the list as it is.
unsorted(list) == list

\* list.sort(), which compares with __lt__ alone and is stable: each element
\* goes before the first one it is less than, after the ones it equals.
RECURSIVE InsertPosition(_, _, _)
InsertPosition(placed, x, j) ==
    IF j = 0 \/ ~Lt(x, placed[j]) THEN j ELSE InsertPosition(placed, x, j - 1)

InsertSorted(placed, x) ==
    With(InsertPosition(placed, x, Len(placed)), LAMBDA j :
        SubSeq(placed, 1, j) \o <<x>> \o SubSeq(placed, j + 1, Len(placed)))

RECURSIVE SortFrom(_, _, _)
SortFrom(list, i, placed) ==
    IF i > Len(list) THEN placed
    ELSE With(InsertSorted(placed, list[i]), LAMBDA next : SortFrom(list, i + 1, next))

sort(list) == SortFrom(list, 1, <<>>)

\* bisect_left(a, x), on 0-based positions lo..hi as the library keeps them:
\* while lo < hi: mid = (lo + hi) // 2; if a[mid] < x: lo = mid + 1 else hi = mid
RECURSIVE Bisect(_, _, _, _)
Bisect(a, x, lo, hi) ==
    IF lo < hi
    THEN With((lo + hi) \div 2, LAMBDA mid :
             IF Lt(a[mid + 1], x) THEN Bisect(a, x, mid + 1, hi)
                                  ELSE Bisect(a, x, lo, mid))
    ELSE lo

bisect_left(a, x) == Bisect(a, x, 0, Len(a))

\* find_closest_location_in_time with <= for <: a tie goes to the later one.
find_closest_preferring_after(locations, image_location) ==
    With(bisect_left(locations, image_location), LAMBDA pos :
        IF Len(locations) = 0 THEN [raised |-> "IndexError", index |-> 0]
        ELSE IF pos = 0 THEN [raised |-> "none", index |-> 0]
        ELSE IF pos = Len(locations)
        THEN [raised |-> "none", index |-> Len(locations) - 1]
        ELSE IF locations[pos + 1].timestamp - image_location.timestamp
                  <= image_location.timestamp - locations[pos].timestamp
        THEN [raised |-> "none", index |-> pos]
        ELSE [raised |-> "none", index |-> pos - 1])

\* find_closest_location_in_time: the 0-based position of the Location it
\* returns, or IndexError (locations[0] of an empty list).
find_closest_location_in_time(locations, image_location) ==
    With(bisect_left(locations, image_location), LAMBDA pos :
        IF pos = 0
        THEN IF Len(locations) = 0
             THEN [raised |-> "IndexError", index |-> 0]
             ELSE [raised |-> "none", index |-> 0]
        ELSE IF pos = Len(locations)
        THEN [raised |-> "none", index |-> Len(locations) - 1]
        ELSE LET before == locations[pos]
                 after  == locations[pos + 1]
             IN  IF after.timestamp - image_location.timestamp
                      < image_location.timestamp - before.timestamp
                 THEN [raised |-> "none", index |-> pos]
                 ELSE [raised |-> "none", index |-> pos - 1])

-----------------------------------------------------------------------------
(* load_locations. *)

timelinePathKey == <<"t", "i", "m", "e", "l", "i", "n", "e", "P", "a", "t", "h">>

locationsKey == <<"l", "o", "c", "a", "t", "i", "o", "n", "s">>

geoPrefix == <<"g", "e", "o", ":">>

\* An entry the loop over location_data meets: a dict of the top-level list,
\* or, when the top level is a dict, one of its keys (a str).
ObjectEntry(has, start, path) ==
    [t |-> "object", s |-> <<>>, hasTimelinePath |-> has, startTime |-> start,
     timelinePath |-> path]

KeyEntry(key) ==
    [t |-> "str", s |-> key, hasTimelinePath |-> FALSE, startTime |-> JNull,
     timelinePath |-> <<>>]

\* for entry in location_data
Entries(data) ==
    IF data.t = "object" THEN [i \in DOMAIN data.keys |-> KeyEntry(data.keys[i])]
    ELSE data.items

\* "timelinePath" in entry: a key of a dict, a substring of a str.
InEntry(key, entry) ==
    IF entry.t = "str" THEN Contains(entry.s, key) ELSE entry.hasTimelinePath

\* The two strptime attempts on startTime; [ok |-> FALSE] is the warning.
ParseStartTime(start_time_str) ==
    With(strptime(start_time_str, IsoFractionFormat), LAMBDA first :
        IF first.ok THEN first ELSE strptime(start_time_str, IsoFormat))

\* One pass of the loop over timeline_path: the Location appended, if any.
ParsePoint(start_time, point) ==
    LET point_str           == point.point
        duration_offset_str == point.durationMinutesOffsetFromStartTime
        none                == [ok |-> FALSE, location |-> Location(0, 0, 0)]
    IN  IF ~Truthy(point_str) \/ ~Truthy(duration_offset_str) THEN none
        ELSE IF ~startswith(point_str.s, geoPrefix) THEN none
        ELSE With(split(SubSeq(point_str.s, 5, Len(point_str.s)), ","), LAMBDA pieces :
                 IF Len(pieces) # 2 THEN none
                 ELSE LET latitude        == float(pieces[1])
                          longitude       == float(pieces[2])
                          duration_offset == int(duration_offset_str)
                      IN  IF ~latitude.ok \/ ~longitude.ok THEN none
                          ELSE IF ~duration_offset.ok THEN none
                          ELSE [ok |-> TRUE,
                                location |->
                                    Location(timestamp(PlusMinutes(start_time, duration_offset.v)),
                                             latitude.v, longitude.v)])

RECURSIVE PathLocations(_, _, _)
PathLocations(start_time, timeline_path, i) ==
    IF i > Len(timeline_path) THEN <<>>
    ELSE With(ParsePoint(start_time, timeline_path[i]), LAMBDA p :
             (IF p.ok THEN <<p.location>> ELSE <<>>)
             \o PathLocations(start_time, timeline_path, i + 1))

\* One pass of the loop over location_data: what it appends, or that it
\* raises (str has no get).
EntryLocations(entry) ==
    IF ~InEntry(timelinePathKey, entry)
    THEN [raised |-> "none", locations |-> <<>>]
    ELSE IF entry.t = "str"
    THEN [raised |-> "AttributeError", locations |-> <<>>]
    ELSE IF ~Truthy(entry.startTime)
    THEN [raised |-> "none", locations |-> <<>>]
    ELSE With(ParseStartTime(entry.startTime.s), LAMBDA start_time :
             IF ~start_time.ok THEN [raised |-> "none", locations |-> <<>>]
             ELSE [raised |-> "none",
                   locations |-> PathLocations(start_time.dt, entry.timelinePath, 1)])

RECURSIVE LoadFrom(_, _, _)
LoadFrom(entries, i, locations_so_far) ==
    IF i > Len(entries) THEN [raised |-> "none", locations |-> locations_so_far]
    ELSE With(EntryLocations(entries[i]), LAMBDA e :
             IF e.raised # "none"
             THEN [raised |-> e.raised, locations |-> locations_so_far]
             ELSE With(locations_so_far \o e.locations, LAMBDA extended :
                      LoadFrom(entries, i + 1, extended)))

\* load_locations, from the loaded JSON on: the sorted list it returns, or
\* the exception that leaves it.
load_locations(data) ==
    With(Entries(data), LAMBDA entries :
        With(LoadFrom(entries, 1, <<>>), LAMBDA loaded :
            IF loaded.raised # "none" THEN loaded
            ELSE [raised |-> "none", locations |-> sort(loaded.locations)]))

-----------------------------------------------------------------------------
(* read_image_file_names. *)

INCLUDED_FILE_EXTENSIONS ==
    << <<"j", "p", "g">>, <<"J", "P", "G">>, <<"j", "p", "e", "g">>,
       <<"J", "P", "E", "G">>, <<"a", "r", "w">>, <<"A", "R", "W">> >>

Included(fn) ==
    \E i \in DOMAIN INCLUDED_FILE_EXTENSIONS :
        endswith(fn, INCLUDED_FILE_EXTENSIONS[i])

\* sorted(names): the least name first.
RECURSIVE sorted(_)
sorted(names) ==
    IF names = {} THEN <<>>
    ELSE With(CHOOSE a \in names : \A b \in names \ {a} : StrLess(a, b), LAMBDA least :
             With(names \ {least}, LAMBDA rest : <<least>> \o sorted(rest)))

\* read_image_file_names without its test for an empty list.
read_image_file_names_unchecked(listing) ==
    IF ~listing.exists THEN [exit |-> TRUE, image_files |-> <<>>]
    ELSE [exit |-> FALSE, image_files |-> sorted({fn \in listing.names : Included(fn)})]

\* read_image_file_names: the sorted names it returns, or that it calls
\* exit(): the folder does not exist, or holds no image.
read_image_file_names(listing) ==
    IF ~listing.exists THEN [exit |-> TRUE, image_files |-> <<>>]
    ELSE With(sorted({fn \in listing.names : Included(fn)}), LAMBDA image_files :
             IF image_files = <<>>
             THEN [exit |-> TRUE, image_files |-> <<>>]
             ELSE [exit |-> FALSE, image_files |-> image_files])

-----------------------------------------------------------------------------
(* get_approximate_image_location, the tolerance test, geotag_image and      *)
(* get_formatted_time_error.                                                 *)

SecondsPerHour == 3600

\* What get_approximate_image_location does with a photo's metadata: raises
\* (KeyError: no EXIF:DateTimeOriginal; IndexError: no location), returns
\* None three times (none), or returns the closest Location and hours_away.
get_approximate_image_location(tz_offset, locations, metadata) ==
    LET nothing == [raised |-> "none", none |-> TRUE, image_time_unix |-> 0,
                    index |-> 0, hours_away |-> [num |-> 0, den |-> 1]]
    IN  IF ~metadata.has THEN [nothing EXCEPT !.raised = "KeyError", !.none = FALSE]
        ELSE IF metadata.value = <<>> THEN nothing
        ELSE With(strptime(metadata.value, ExifFormat), LAMBDA image_time :
                 IF ~image_time.ok THEN nothing
                 ELSE LET image_time_utc  == MinusHours(image_time.dt, tz_offset)
                          image_time_unix == timestamp(image_time_utc)
                          image_location  == Location(image_time_unix, 0, 0)
                      IN  With(find_closest_location_in_time(locations, image_location),
                               LAMBDA found :
                                 IF found.raised # "none"
                                 THEN [nothing EXCEPT !.raised = found.raised,
                                                      !.none = FALSE,
                                                      !.image_time_unix = image_time_unix]
                                 ELSE [raised |-> "none", none |-> FALSE,
                                       image_time_unix |-> image_time_unix,
                                       index |-> found.index,
                                       hours_away |->
                                           [num |-> Abs(locations[found.index + 1].timestamp
                                                        - image_time_unix),
                                            den |-> SecondsPerHour]]))

\* hours_away <= error_hours
WithinOrAtTolerance(hours_away, tolerance_hours) ==
    hours_away.num <= tolerance_hours * hours_away.den

\* hours_away < error_hours
WithinTolerance(hours_away, tolerance_hours) ==
    hours_away.num < tolerance_hours * hours_away.den

\* The tags geotag_image hands to et.set_tags.
geotag_image(approx_location) ==
    [GPSLatitudeRef   |-> IF approx_location.latitude < 0 THEN "S" ELSE "N",
     GPSLatitude      |-> approx_location.latitude,
     GPSLongitudeRef  |-> IF approx_location.longitude < 0 THEN "W" ELSE "E",
     GPSLongitude     |-> approx_location.longitude]

\* a / b to the nearest whole number (a, b > 0), for the .2f and .1f formats
RoundDiv(a, b) == (2 * a + b) \div (2 * b)

\* get_formatted_time_error: the number printed, as a whole number of its
\* last decimal, and the words after it.
get_formatted_time_error(hours) ==
    IF hours.num > hours.den
    THEN [value |-> RoundDiv(hours.num * 100, hours.den), decimals |-> 2,
          unit |-> "hours away"]
    ELSE IF hours.num * 60 > hours.den
    THEN [value |-> RoundDiv(hours.num * 60 * 10, hours.den), decimals |-> 1,
          unit |-> "min away"]
    ELSE [value |-> (hours.num * 60 * 60) \div hours.den, decimals |-> 0,
          unit |-> "sec away"]

-----------------------------------------------------------------------------
(* The inputs the runs are tried on. *)

TwoDigits(k) == <<DigitChars[(k \div 10) + 1], DigitChars[(k % 10) + 1]>>

\* "2023-01-01THH:MM:00.000Z", and the same without the fraction
IsoFractionString(hh, mm) ==
    <<"2", "0", "2", "3", "-", "0", "1", "-", "0", "1", "T">> \o TwoDigits(hh)
    \o <<":">> \o TwoDigits(mm) \o <<":", "0", "0", ".", "0", "0", "0", "Z">>

IsoString(hh, mm) ==
    <<"2", "0", "2", "3", "-", "0", "1", "-", "0", "1", "T">> \o TwoDigits(hh)
    \o <<":">> \o TwoDigits(mm) \o <<":", "0", "0", "Z">>

\* "2023:01:01 HH:MM:SS"
ExifString(hh, mm, ss) ==
    <<"2", "0", "2", "3", ":", "0", "1", ":", "0", "1", " ">> \o TwoDigits(hh)
    \o <<":">> \o TwoDigits(mm) \o <<":">> \o TwoDigits(ss)

\* 2023-01-01T00:00:00Z in seconds since the epoch
T0 == DaysFromCivil(2023, 1, 1) * 86400

StartFraction == JStr(IsoFractionString(0, 0))

StartPlain == JStr(IsoString(1, 0))

StartTimeVals ==
    {JNull, StartFraction, StartPlain, JStr(<<"t", "o", "d", "a", "y">>)}

GeoA == JStr(geoPrefix \o <<"1", "0", ".", "0", ",", "2", "0", ".", "0">>)

GeoB == JStr(geoPrefix \o <<"-", "5", ".", "5", ",", "7", ".", "2", "5">>)

Point(p, offset) == [point |-> p, durationMinutesOffsetFromStartTime |-> offset]

\* The points the generated timelinePaths are made of: four well formed (two
\* at one time, one later, one with the number 0 for its offset), one whose
\* latitude is no number and one whose offset is no number.
Points ==
    {Point(GeoA, JStr(<<"0">>)), Point(GeoB, JStr(<<"0">>)),
     Point(GeoA, JStr(<<"6", "0">>)), Point(GeoB, JInt(0)),
     Point(JStr(geoPrefix \o <<"n", "o", "r", "t", "h", ",", "2", "0">>), JStr(<<"6", "0">>)),
     Point(GeoA, JStr(<<"s", "o", "o", "n">>))}

\* Points met once each, beside a well-formed one: a negative offset, an
\* offset given as a number, and four malformed ones (no geo: prefix, three
\* coordinates, no offset, no point).
OtherPoints ==
    {Point(GeoB, JStr(<<"-", "3", "0">>)),
     Point(GeoA, JInt(120)),
     Point(JStr(<<"1", "0", ".", "0", ",", "2", "0", ".", "0">>), JStr(<<"6", "0">>)),
     Point(JStr(geoPrefix \o <<"1", ",", "2", ",", "3">>), JStr(<<"6", "0">>)),
     Point(GeoA, JNull),
     Point(JNull, JStr(<<"6", "0">>))}

RECURSIVE SeqsUpTo(_, _)
SeqsUpTo(S, k) ==
    IF k = 0 THEN {<<>>}
    ELSE LET shorter == SeqsUpTo(S, k - 1)
         IN  shorter \cup {Append(q, x) : q \in shorter, x \in S}

ArrayFile(entries) ==
    [t |-> "array", keys |-> <<>>, locations |-> <<>>, items |-> entries]

FlatEntry(ts, latE7, lonE7) ==
    [timestamp |-> ts, latitudeE7 |-> latE7, longitudeE7 |-> lonE7]

\* {"locations": [...]}: the flat-list shape
FlatFile(flat_entries) ==
    [t |-> "object", keys |-> <<locationsKey>>, locations |-> flat_entries,
     items |-> <<>>]

\* location_data before json.load
Unread == [t |-> "unread", keys |-> <<>>, locations |-> <<>>, items |-> <<>>]

\* Samples at T0, T0 + 3600 and T0 + 7200.
ThreeSamples ==
    <<Point(GeoA, JStr(<<"0">>)), Point(GeoB, JStr(<<"6", "0">>)),
      Point(GeoA, JStr(<<"1", "2", "0">>))>>

HistoryFiles ==
    {ArrayFile(<<ObjectEntry(TRUE, StartFraction, path)>>) :
        path \in SeqsUpTo(Points, MaxPoints)}
    \cup {ArrayFile(<<ObjectEntry(has, start, ThreeSamples)>>) :
            has \in BOOLEAN, start \in StartTimeVals}
    \cup {ArrayFile(<<ObjectEntry(TRUE, StartFraction, <<p, Point(GeoA, JStr(<<"0">>))>>)>>) :
            p \in OtherPoints}
    \cup {ArrayFile(<<>>),
          ArrayFile(<<ObjectEntry(TRUE, StartPlain, <<Point(GeoA, JStr(<<"0">>))>>),
                      ObjectEntry(TRUE, StartFraction, <<Point(GeoB, JStr(<<"0">>))>>)>>),
          FlatFile(<<FlatEntry(IsoFractionString(0, 0), 407128000, -740060000),
                     FlatEntry(IsoString(1, 0), 100000000, 200000000)>>),
          FlatFile(<<>>)}

FileNames ==
    {<<"a", ".", "j", "p", "g">>, <<"B", ".", "A", "R", "W">>,
     <<"c", ".", "J", "P", "E", "G">>, <<"n", "o", "t", "e", "s", ".", "t", "x", "t">>}

\* The folder does not exist, or holds up to MaxFiles of the names.
Listings ==
    {[exists |-> FALSE, names |-> {}]}
    \cup {[exists |-> TRUE, names |-> S] :
            S \in {X \in SUBSET FileNames : Cardinality(X) <= MaxFiles}}

\* A photo's metadata: whether it holds EXIF:DateTimeOriginal, and its value.
Metadatas ==
    {[has |-> FALSE, value |-> <<>>],
     [has |-> TRUE, value |-> <<>>],
     [has |-> TRUE, value |-> <<"n", "o", "o", "n">>]}
    \cup {[has |-> TRUE, value |-> v] :
            v \in {ExifString(1, 1, 40), ExifString(1, 0, 0), ExifString(0, 30, 0)}}

ErrorHoursArgs == {1, 2}

TimezoneArgs == {0, 1}

-----------------------------------------------------------------------------
(* The run: the steps of __main__. *)

Init ==
    /\ pc = "parse_arguments"
    /\ error_hours = 1
    /\ timezone_offset = 0
    /\ dir_listing = [exists |-> FALSE, names |-> {}]
    /\ image_file_names = <<>>
    /\ location_data = Unread
    /\ locations_list = <<>>
    /\ num = 0
    /\ exif_reads = <<>>
    /\ matches = <<>>
    /\ exif_writes = <<>>
    /\ stdout = <<>>
    /\ exception = "none"

\* image_dir, error_hours, timezone_offset = parse_arguments()
ParseArguments ==
    /\ pc = "parse_arguments"
    /\ \E e \in ErrorHoursArgs, tz \in TimezoneArgs :
           /\ error_hours' = e
           /\ timezone_offset' = tz
    /\ pc' = "read_image_file_names"
    /\ UNCHANGED <<dir_listing, image_file_names, location_data, locations_list,
                   num, exif_reads, matches, exif_writes, stdout, exception>>

\* image_file_names = read_image_file_names(image_dir)
ReadImageFileNames ==
    /\ pc = "read_image_file_names"
    /\ \E listing \in Listings :
           \E r \in {read_image_file_names(listing)} :
               /\ dir_listing' = listing
               /\ image_file_names' = r.image_files
               /\ pc' = IF r.exit THEN "exited" ELSE "load_locations"
               /\ exception' = IF r.exit THEN "SystemExit" ELSE "none"
    /\ UNCHANGED <<error_hours, timezone_offset, location_data, locations_list,
                   num, exif_reads, matches, exif_writes, stdout>>

\* locations_list = load_locations(google_locations_file): the file opens and
\* holds one of HistoryFiles, or does not exist.  The photo loop follows; it
\* is over at once when there is no photo.
LoadLocations ==
    /\ pc = "load_locations"
    /\ \/ /\ pc' = "aborted"
          /\ exception' = "FileNotFoundError"
          /\ UNCHANGED <<location_data, locations_list>>
       \/ \E data \in HistoryFiles :
             \E r \in {load_locations(data)} :
                 /\ location_data' = data
                 /\ locations_list' = r.locations
                 /\ exception' = r.raised
                 /\ pc' = IF r.raised # "none" THEN "aborted"
                           ELSE IF image_file_names = <<>> THEN "done"
                           ELSE "photo_loop"
    /\ UNCHANGED <<error_hours, timezone_offset, dir_listing, image_file_names,
                   num, exif_reads, matches, exif_writes, stdout>>

\* One pass of the photo loop, on image_file_names[num]: the metadata read,
\* the closest location, the tolerance test (None < int raises TypeError), the
\* write (which raises when exiftool fails) and the report.  An exception
\* ends the run where it is raised.
PhotoStep ==
    /\ pc = "photo_loop"
    /\ \E metadata \in Metadatas, write_ok \in BOOLEAN :
       \E got \in {get_approximate_image_location(timezone_offset, locations_list,
                                                  metadata)} :
         LET image_file_name == image_file_names[num + 1]
             accept == got.raised = "none" /\ ~got.none
                         /\ WithinTolerance(got.hours_away, error_hours)
             raised == IF got.raised # "none" THEN got.raised
                       ELSE IF got.none THEN "TypeError"
                       ELSE IF accept /\ ~write_ok THEN "ExifToolExecuteError"
                       ELSE "none"
             approx_location == locations_list[got.index + 1]
         IN  /\ exif_reads' = Append(exif_reads,
                                     [file |-> image_file_name, metadata |-> metadata])
             /\ matches' =
                   IF got.raised = "none" /\ ~got.none
                   THEN Append(matches,
                               [file |-> image_file_name,
                                image_time_unix |-> got.image_time_unix,
                                index |-> got.index,
                                hours_away |-> got.hours_away])
                   ELSE matches
             /\ exif_writes' =
                   IF accept
                   THEN Append(exif_writes,
                               [file |-> image_file_name,
                                tags |-> geotag_image(approx_location),
                                ok   |-> write_ok])
                   ELSE exif_writes
             /\ stdout' =
                   IF got.raised = "none" /\ got.none
                   THEN Append(stdout, [file |-> image_file_name, line |-> "Warning",
                                        time_error |-> <<>>])
                   ELSE IF raised # "none" THEN stdout
                   ELSE Append(stdout,
                               [file |-> image_file_name,
                                line |-> IF accept THEN "Geotagged" ELSE "Not geotagged",
                                time_error |-> <<get_formatted_time_error(got.hours_away)>>])
             /\ exception' = raised
             /\ num' = IF raised = "none" THEN num + 1 ELSE num
             /\ pc' = IF raised # "none" THEN "aborted"
                       ELSE IF num + 1 = Len(image_file_names) THEN "done"
                       ELSE "photo_loop"
    /\ UNCHANGED <<error_hours, timezone_offset, dir_listing, image_file_names,
                   location_data, locations_list>>

Next == ParseArguments \/ ReadImageFileNames \/ LoadLocations \/ PhotoStep

Spec == Init /\ [][Next]_vars

-----------------------------------------------------------------------------
(* find_closest_location_in_time alone, on every sorted list of up to MaxLen *)
(* Locations at the times SampleTimes, and every target time.               *)

SampleTimes == {1, 3, 4, 8}

TargetTimes == 0..9

SampleLocations == {Location(ts, lat, 0) : ts \in SampleTimes, lat \in {0, 1}}

IsSorted(list) ==
    \A i \in 1..(Len(list) - 1) : list[i].timestamp <= list[i + 1].timestamp

\* The non-empty sorted lists: equal times come in either order.
SortedLists ==
    {list \in SeqsUpTo(SampleLocations, MaxLen) : list # <<>> /\ IsSorted(list)}

InitNearest ==
    /\ pc = "find_closest_location_in_time"
    /\ locations_list \in SortedLists
    /\ error_hours = 1
    /\ timezone_offset = 0
    /\ dir_listing = [exists |-> FALSE, names |-> {}]
    /\ image_file_names = <<>>
    /\ location_data = Unread
    /\ num = 0
    /\ exif_reads = <<>>
    /\ matches = <<>>
    /\ exif_writes = <<>>
    /\ stdout = <<>>
    /\ exception = "none"

\* approx_location = find_closest_location_in_time(locations_list, image_location)
FindClosest ==
    /\ pc = "find_closest_location_in_time"
    /\ \E t \in TargetTimes :
         \E found \in {find_closest_location_in_time(locations_list, Location(t, 0, 0))} :
             /\ matches' = <<[file |-> <<>>, image_time_unix |-> t,
                              index |-> found.index,
                              hours_away |->
                                  [num |-> Abs(locations_list[found.index + 1].timestamp - t),
                                   den |-> SecondsPerHour]]>>
             /\ exception' = found.raised
    /\ pc' = "returned"
    /\ UNCHANGED <<error_hours, timezone_offset, dir_listing, image_file_names,
                   location_data, locations_list, num, exif_reads, exif_writes,
                   stdout>>

NextNearest == FindClosest

SpecNearest == InitNearest /\ [][NextNearest]_vars

-----------------------------------------------------------------------------
(* What the claims speak of. *)

\* The time gap, in seconds, of a match to the Location it chose.
Gap(m) == Abs(locations_list[m.index + 1].timestamp - m.image_time_unix)

Written(file) == \E w \in DOMAIN exif_writes : exif_writes[w].file = file

Matched(file) == \E i \in DOMAIN matches : matches[i].file = file

\* A capture timestamp that is absent or malformed.
NoCaptureTime(metadata) ==
    ~metadata.has \/ metadata.value = <<>> \/ ~strptime(metadata.value, ExifFormat).ok

\* load_locations has returned.
Loaded == pc \in {"photo_loop", "done"} \/ (pc = "aborted" /\ exif_reads # <<>>)

-----------------------------------------------------------------------------
(* The closest record (C1). *)

\* How many records are strictly earlier than t: the insertion point.
InsertionPoint(t) ==
    Cardinality({j \in 1..Len(locations_list) : locations_list[j].timestamp < t})

TieAt(t) ==
    LET ip == InsertionPoint(t)
    IN  /\ 0 < ip /\ ip < Len(locations_list)
        /\ locations_list[ip + 1].timestamp - t = t - locations_list[ip].timestamp

(* C1: on a non-empty sorted list, find_closest_location_in_time returns a  *)
(* record at the least distance in time from the target over the whole      *)
(* list: the first record when the target precedes all, the last when it    *)
(* follows all, and the earlier neighbour of the insertion point when the   *)
(* two neighbours are equally far.                                          *)
C1_NearestIsClosest ==
    pc = "returned" =>
        \A i \in DOMAIN matches :
            LET t == matches[i].image_time_unix
                r == matches[i].index + 1
                n == Len(locations_list)
            IN  /\ exception = "none"
                /\ r \in 1..n
                /\ \A j \in 1..n :
                      Abs(locations_list[r].timestamp - t)
                        <= Abs(locations_list[j].timestamp - t)
                /\ (\A j \in 1..n : t < locations_list[j].timestamp) => r = 1
                /\ (\A j \in 1..n : t > locations_list[j].timestamp) => r = n
                /\ TieAt(t) => r = InsertionPoint(t)

\* A tie between two neighbours, in a list that holds a time twice, settled
\* for the earlier one.
C1_Witness ==
    /\ pc = "returned"
    /\ Len(locations_list) = 3
    /\ locations_list[1].timestamp = locations_list[2].timestamp
    /\ TieAt(matches[1].image_time_unix)
    /\ matches[1].index = 1

-----------------------------------------------------------------------------
(* C2: a photo's metadata is written if and only if the time gap to its     *)
(* nearest record is strictly less than tolerance_hours * 3600 seconds; a   *)
(* gap equal to the tolerance is rejected, and nothing is written for it.   *)
C2_WrittenIffWithinTolerance ==
    /\ \A i \in DOMAIN matches :
          Written(matches[i].file) <=> Gap(matches[i]) < error_hours * 3600
    /\ \A w \in DOMAIN exif_writes : Matched(exif_writes[w].file)

\* A photo exactly the tolerance away from its nearest record, reported and
\* not written.
C2_Witness ==
    \E i \in DOMAIN matches :
        /\ Gap(matches[i]) = error_hours * 3600
        /\ ~Written(matches[i].file)
        /\ \E k \in DOMAIN stdout :
              stdout[k].file = matches[i].file /\ stdout[k].line = "Not geotagged"

-----------------------------------------------------------------------------
(* C3: a photo whose capture timestamp is absent or malformed is skipped    *)
(* (no match, no write) and the run does not abort: the photos after it     *)
(* are still processed.                                                     *)
C3_NoCaptureTimeSkipped ==
    \A i \in DOMAIN exif_reads :
        NoCaptureTime(exif_reads[i].metadata) =>
            /\ ~Matched(exif_reads[i].file)
            /\ ~Written(exif_reads[i].file)
            /\ ~(pc = "aborted" /\ i = Len(exif_reads))

-----------------------------------------------------------------------------
(* C4: the nearest-timestamp query is never run on an index of no records:  *)
(* when load_locations yields none, the run aborts before the photo loop,   *)
(* and no photo is read, matched or written.                                *)
C4_EmptyIndexAbortsBeforeLoop ==
    /\ exception # "IndexError"
    /\ (location_data # Unread /\ locations_list = <<>>) =>
          /\ pc = "aborted"
          /\ exif_reads = <<>> /\ matches = <<>> /\ exif_writes = <<>>

-----------------------------------------------------------------------------
-----------------------------------------------------------------------------
(* C6: a flat-list history, {"locations": [...]}, gives one record for each *)
(* of its entries, with the entry's E7 latitude and longitude over 1e7 (the *)
(* model counts degrees in 1e-7, so the numbers are the same).              *)
C6_FlatShapeLoaded ==
    (Loaded /\ location_data.t = "object" /\ location_data.keys = <<locationsKey>>) =>
        /\ Len(locations_list) = Len(location_data.locations)
        /\ \A i \in DOMAIN location_data.locations :
              \E j \in DOMAIN locations_list :
                  /\ locations_list[j].latitude = location_data.locations[i].latitudeE7
                  /\ locations_list[j].longitude = location_data.locations[i].longitudeE7

-----------------------------------------------------------------------------
(* The timeline-path history (C7). *)

IsWholeNumber(j) ==
    \/ j.t = "int"
    \/ j.t = "str" /\ Unsigned(j.s) # <<>> /\ AllDigits(Unsigned(j.s))

IsGeoString(j) ==
    /\ j.t = "str"
    /\ startswith(j.s, geoPrefix)
    /\ LET coords == split(SubSeq(j.s, 5, Len(j.s)), ",")
       IN  Len(coords) = 2 /\ float(coords[1]).ok /\ float(coords[2]).ok

WellFormed(point) ==
    IsGeoString(point.point) /\ IsWholeNumber(point.durationMinutesOffsetFromStartTime)

ValidStart(entry) ==
    /\ entry.t = "object" /\ entry.hasTimelinePath /\ entry.startTime.t = "str"
    /\ \/ strptime(entry.startTime.s, IsoFractionFormat).ok
       \/ strptime(entry.startTime.s, IsoFormat).ok

\* The well-formed points of the file: <<entry, point>> positions.
WellFormedPlaces(data) ==
    UNION {{<<e, k>> : k \in {k \in DOMAIN data.items[e].timelinePath :
                                   WellFormed(data.items[e].timelinePath[k])}} :
           e \in {e \in DOMAIN data.items : ValidStart(data.items[e])}}

RecordOf(entry, point) ==
    LET coords == split(SubSeq(point.point.s, 5, Len(point.point.s)), ",")
    IN  Location(ParseStartTime(entry.startTime.s).dt
                   + int(point.durationMinutesOffsetFromStartTime).v * 60,
                 float(coords[1]).v, float(coords[2]).v)

(* C7: a timeline-path history gives one record for each well-formed point  *)
(* (a geo:<lat>,<lon> string and a whole number of minutes, of any sign, 0  *)
(* included) of an entry with a valid startTime, at startTime + offset * 60 *)
(* seconds, and none for any other point.                                   *)
C7_OneRecordPerWellFormedPoint ==
    (Loaded /\ location_data.t = "array") =>
        /\ Len(locations_list) = Cardinality(WellFormedPlaces(location_data))
        /\ \A place \in WellFormedPlaces(location_data) :
              \E j \in DOMAIN locations_list :
                  locations_list[j] =
                      RecordOf(location_data.items[place[1]],
                               location_data.items[place[1]].timelinePath[place[2]])

-----------------------------------------------------------------------------
(* C8: the elapsed time of a photo less than 120 seconds from its nearest   *)
(* record is reported in whole seconds ("100 sec away" at 100 seconds).     *)
C8_UnderTwoMinutesInSeconds ==
    \A k \in DOMAIN stdout :
        \A i \in DOMAIN matches :
            (stdout[k].file = matches[i].file /\ Gap(matches[i]) < 120) =>
                stdout[k].time_error =
                    <<[value |-> Gap(matches[i]), decimals |-> 0, unit |-> "sec away"]>>

-----------------------------------------------------------------------------
(* C9: when the photo directory holds no file with an allowed extension,    *)
(* the run ends in read_image_file_names: the location history is never     *)
(* loaded, and no photo is read, matched or written.                        *)
C9_NoImageNoLoad ==
    (/\ pc \notin {"parse_arguments", "read_image_file_names"}
     /\ ~\E fn \in dir_listing.names : Included(fn)) =>
        /\ pc = "exited"
        /\ location_data = Unread /\ locations_list = <<>>
        /\ exif_reads = <<>> /\ matches = <<>> /\ exif_writes = <<>>

\* A folder that exists and holds a file, none of them an image.
C9_Witness ==
    /\ pc = "exited"
    /\ dir_listing.exists /\ dir_listing.names # {}
    /\ location_data = Unread

-----------------------------------------------------------------------------
(* C10: the location list is sorted by timestamp when load_locations        *)
(* returns it, and no pass of the photo loop changes it.                    *)
C10_IndexSortedAndFrozen ==
    [][/\ pc = "load_locations" => IsSorted(locations_list')
       /\ pc = "photo_loop" => locations_list' = locations_list]_vars

\* A run to its end, with a photo written, on a history whose points were
\* not in time order in the file.
C10_Witness ==
    /\ pc = "done"
    /\ exif_writes # <<>>
    /\ Len(locations_list) >= 2
    /\ LoadFrom(Entries(location_data), 1, <<>>).locations # locations_list

=============================================================================
